---- MODULE Spec2Model ----
(***************************************************************************)
(* Model of tools/amg_matlab2/cinterp_skel.c: the column-wise sparse       *)
(* A-orthogonal expansion that computes the interpolation skeleton X_skel  *)
(* and the weighted row sum X_sum.                                         *)
(*                                                                         *)
(* Arrays are functions on 0..n-1, as in the C code.  A double is modelled *)
(* exactly, as a real number of the form (n/d) / sqrt(rn/rd), written      *)
(* <<n, d, rn, rd>> (rn = rd = 1 for a rational): the only irrational      *)
(* values of the program are quotients by sqrt(D[s] - beta[s]), and every  *)
(* product the program forms of two such values has the same radicand.     *)
(***************************************************************************)
EXTENDS Integers, Sequences, FiniteSets, TLC

\* ------------------------------------------------------------------ bounds
NF == 3
NC == 2

\* ------------------------------------------------------- program constants
STOP_TEST == 2
InitMaxQ == 35

\* --------------------------------------------------------- exact arithmetic
Abs(x) == IF x < 0 THEN -x ELSE x

RECURSIVE GCD(_, _)
GCD(a, b) == IF b = 0 THEN a ELSE GCD(b, a % b)

Zero == <<0, 1, 1, 1>>

\* the value (n/d) / sqrt(rn/rd) in lowest terms, rn/rd already in lowest terms
Val(n, d, rn, rd) ==
  IF n = 0 THEN Zero
  ELSE LET g == GCD(Abs(n), Abs(d))
           sg == IF d < 0 THEN -1 ELSE 1
       IN <<sg * (n \div g), sg * (d \div g), rn, rd>>

Rat(n, d) == Val(n, d, 1, 1)
IsRat(a) == a[3] = 1 /\ a[4] = 1
IsZero(a) == a[1] = 0
Neg(a) == <<-a[1], a[2], a[3], a[4]>>
FAbs(a) == <<Abs(a[1]), a[2], a[3], a[4]>>

\* a + b: both operands carry the same radicand, or one of them is 0
Add(a, b) ==
  CASE IsZero(a) -> b
    [] IsZero(b) -> a
    [] a[3] = b[3] /\ a[4] = b[4] ->
         LET g == GCD(a[2], b[2])
         IN Val(a[1] * (b[2] \div g) + b[1] * (a[2] \div g),
                (a[2] \div g) * b[2], a[3], a[4])

Sub(a, b) == Add(a, Neg(b))

\* the product of the coefficients of a and b, with radicand rn/rd
MulCoef(a, b, rn, rd) ==
  LET g1 == GCD(Abs(a[1]), b[2])
      g2 == GCD(Abs(b[1]), a[2])
  IN Val((a[1] \div g1) * (b[1] \div g2), (a[2] \div g2) * (b[2] \div g1), rn, rd)

\* a * b: one operand is rational, or both carry the same radicand
Mul(a, b) ==
  CASE IsZero(a) \/ IsZero(b) -> Zero
    [] IsRat(a) -> MulCoef(a, b, b[3], b[4])
    [] IsRat(b) -> MulCoef(a, b, a[3], a[4])
    [] a[3] = b[3] /\ a[4] = b[4] ->
         MulCoef(MulCoef(a, b, 1, 1), <<a[4], a[3], 1, 1>>, 1, 1)

\* a / b for rationals, b # 0
Div(a, b) == Mul(a, Rat(b[2], b[1]))

\* a / sqrt(d) for rationals a and d > 0
DivSqrt(a, d) ==
  CASE IsRat(a) /\ IsRat(d) /\ d[1] > 0 ->
         IF IsZero(a) THEN Zero ELSE <<a[1], a[2], d[1], d[2]>>

\* a > b for rationals
RatGT(a, b) == a[1] * b[2] > b[1] * a[2]

\* the square of a value: a rational
Sq(a) == Mul(a, a)

\* fabs(a) > fabs(b)
AbsGT(a, b) ==
  IF a[3] = b[3] /\ a[4] = b[4]
  THEN RatGT(<<Abs(a[1]), a[2], 1, 1>>, <<Abs(b[1]), b[2], 1, 1>>)
  ELSE RatGT(Sq(a), Sq(b))

\* ------------------------------------------------------------------ inputs
\* The host hands A and B over in compressed-column form (jc, ir, pr) with
\* ascending row indices in each column; D is the diagonal of A.

RECURSIVE SortedSeq(_)
SortedSeq(S) ==
  IF S = {} THEN <<>>
  ELSE LET x == CHOOSE x \in S : \A y \in S : x <= y
       IN <<x>> \o SortedSeq(S \ {x})

F0(q) == [i \in 0..(Len(q) - 1) |-> q[i + 1]]

RECURSIVE CatCols(_, _, _)
\* the row indices of columns c..n of the dense columns cols, concatenated
CatCols(cols, m, c) ==
  IF c > Len(cols) THEN <<>>
  ELSE SortedSeq({i \in 0..(m - 1) : cols[c][i] # 0}) \o CatCols(cols, m, c + 1)

RECURSIVE CatVals(_, _, _)
CatVals(cols, m, c) ==
  IF c > Len(cols) THEN <<>>
  ELSE LET rows == SortedSeq({i \in 0..(m - 1) : cols[c][i] # 0})
       IN [h \in 1..Len(rows) |-> Rat(cols[c][rows[h]], 1)] \o CatVals(cols, m, c + 1)

\* the compressed-column form of the m x Len(cols) matrix with columns cols
CSC(cols, m) ==
  [m  |-> m,
   n  |-> Len(cols),
   jc |-> [c \in 0..Len(cols) |->
             Cardinality({<<i, cc>> \in (0..(m - 1)) \X (1..c) : cols[cc][i] # 0})],
   ir |-> F0(CatCols(cols, m, 1)),
   pr |-> F0(CatVals(cols, m, 1))]

\* symmetric positive-definite operators of order n
AEntry(kind, n, i, c) ==
  CASE kind = "id"    -> IF i = c THEN 1 ELSE 0
    [] kind = "diag"  -> IF i = c THEN (i + 2) * (i + 2) ELSE 0
    [] kind = "tri"   -> IF i = c THEN 2 ELSE IF Abs(i - c) = 1 THEN -1 ELSE 0
    [] kind = "block" -> IF i = c THEN 10 ELSE IF i + c = 1 THEN 9 ELSE 0
    [] kind = "arrow" -> IF i = c THEN 4 ELSE IF i = 0 \/ c = 0 THEN 1 ELSE 0
    [] kind = "long"  -> IF i = c THEN 2 ELSE IF Abs(i - c) = 1 THEN -1 ELSE 0

\* columns of the target matrix B, of length m
BEntry(kind, m, i) ==
  CASE kind = "empty" -> 0
    [] kind = "e0"    -> IF i = 0 THEN 1 ELSE 0
    [] kind = "ones"  -> 1
    [] kind = "back"  -> IF i = m - 1 THEN 5 ELSE IF i = 0 THEN 1 ELSE 0

AKinds == {"id", "diag", "tri", "block", "arrow"}
BKinds == {"empty", "e0", "ones", "back"}
Taus == {<<1, 100, 1, 1>>, <<1, 1, 1, 1>>, <<4, 1, 1, 1>>}

\* the order of the operator: "long" is the chain that outgrows Q
OrderOf(ak) == IF ak = "long" THEN InitMaxQ + 1 ELSE NF

Inputs ==
  [ak : AKinds, bk : [1..NC -> BKinds], tau : Taus]
    \cup {[ak |-> "long", bk |-> <<"e0">>, tau |-> <<1, 100, 1, 1>>]}

ATable ==
  [ak \in AKinds \cup {"long"} |->
     LET n == OrderOf(ak)
     IN CSC([c \in 1..n |-> [i \in 0..(n - 1) |-> AEntry(ak, n, i, c - 1)]], n)]

DTable ==
  [ak \in AKinds \cup {"long"} |->
     [i \in 0..(OrderOf(ak) - 1) |-> Rat(AEntry(ak, OrderOf(ak), i, i), 1)]]

BTable ==
  [x \in {<<OrderOf(p.ak), p.bk>> : p \in Inputs} |->
     CSC([c \in 1..Len(x[2]) |-> [i \in 0..(x[1] - 1) |-> BEntry(x[2][c], x[1], i)]],
         x[1])]

\* ------------------------------------------------------------------- state
VARIABLES
  inp,        \* the inputs of the call: operator, target columns, tau
  junk,       \* what an allocated, not yet written cell holds
  pc,         \* position in interp_skel
  j, jcp, jc, \* column of X being worked on; X_skel.jc and the cursor into it
  nzmax, irBase, irData,  \* X_skel.ir: capacity, address, contents
  irp, iri, Qi,           \* write cursor (address and offset), pivot list head
  max_Q, QBase, QData, qk,\* packed triangular Q: capacity, address, contents, column
  beta, rp, Aqk_p, sp,    \* the four double buffers of length nf
  ri, Aqk_i, si, map_to_Qi, \* the four index buffers of length nf
  flag,
  rnz, Aqk_nz, yn, k, s, w, norm,
  X_sum,
  betaW, spW, QW, \* history: cells of beta, sp, Q written since the column began
  call,       \* 1 in the first call of the solver, 2 in the second
  prevOut     \* the outputs the first call handed back

vars == <<inp, junk, call, prevOut, pc, j, jcp, jc, nzmax, irBase, irData, irp, iri, Qi,
          max_Q, QBase, QData, qk, beta, rp, Aqk_p, sp, ri, Aqk_i, si,
          map_to_Qi, flag, rnz, Aqk_nz, yn, k, s, w, norm, X_sum,
          betaW, spW, QW>>

A == ATable[inp.ak]
D == DTable[inp.ak]
B == BTable[<<OrderOf(inp.ak), inp.bk>>]
nf == B.m
nc == B.n
u == [c \in 0..(nc - 1) |-> Rat(c + 1, 1)]
\* tol after the adjustment on entry
tol ==
  IF STOP_TEST = 1 THEN Mul(inp.tau, Mul(Rat(1, 2), inp.tau))
  ELSE Mul(inp.tau, Rat(1, 2))

JunkVal == Rat(junk, 1)
QSize(mq) == (mq * (mq + 1)) \div 2

\* the cell of X_skel.ir that the address p points to; a freed or foreign
\* address reads as garbage
IrAt(p) == IF (p - irBase) \in DOMAIN irData THEN irData[p - irBase] ELSE junk
QAt(p) == IF (p - QBase) \in DOMAIN QData THEN QData[p - QBase] ELSE JunkVal

\* the state on reaching the column loop
Setup(in, g) ==
  LET b == BTable[<<OrderOf(in.ak), in.bk>>]
      rows == 0..(b.m - 1)
  IN /\ inp = in
     /\ junk = g
     /\ call = 1 /\ prevOut = <<>>
     /\ pc = "col"
     /\ j = 0 /\ jcp = 0
     /\ jc = [c \in 0..b.n |-> g]
     /\ nzmax = 2 * b.jc[b.n]
     /\ irBase = 0
     /\ irData = [o \in 0..(2 * b.jc[b.n] - 1) |-> g]
     /\ irp = 0 /\ iri = 0 /\ Qi = g
     /\ max_Q = InitMaxQ
     /\ QBase = 0
     /\ QData = [o \in 0..(QSize(InitMaxQ) - 1) |-> Rat(g, 1)]
     /\ qk = g
     /\ beta = [i \in rows |-> Rat(g, 1)]
     /\ rp = [i \in rows |-> Rat(g, 1)]
     /\ Aqk_p = [i \in rows |-> Rat(g, 1)]
     /\ sp = [i \in rows |-> Rat(g, 1)]
     /\ ri = [i \in rows |-> g]
     /\ Aqk_i = [i \in rows |-> g]
     /\ si = [i \in rows |-> g]
     /\ map_to_Qi = [i \in rows |-> -1]
     /\ flag = [i \in rows |-> 0]
     /\ rnz = g /\ Aqk_nz = g /\ yn = g /\ k = g /\ s = g
     /\ w = Rat(g, 1) /\ norm = Rat(g, 1)
     /\ X_sum = [i \in rows |-> Zero]
     /\ betaW = {} /\ spW = {} /\ QW = {}

\* the garbage of the first and of the second call
Junks == <<0, 1>>

Init == \E in \in Inputs : Setup(in, Junks[1])

\* ------------------------------------------------------- start of a column
RECURSIVE init_scan_ties(_, _, _)
\* init_scan with >= for >: the last of several equal candidates wins
init_scan_ties(m, n, acc) ==
  IF m >= n THEN acc
  ELSE LET i == acc.ri[m]
           r == acc.rp[m]
           d == D[i]
           tw == DivSqrt(r, d)
           tn == FAbs(Div(r, d))
           better == ~AbsGT(acc.w, tw)
       IN init_scan_ties(m + 1, n,
            [acc EXCEPT !.beta = [@ EXCEPT ![i] = Zero],
                        !.bw = @ \cup {i},
                        !.w = IF better THEN tw ELSE @,
                        !.s = IF better THEN i ELSE @,
                        !.norm = Add(@, tn)])

RECURSIVE init_scan_nobeta(_, _, _)
\* init_scan that leaves beta as it finds it
init_scan_nobeta(m, n, acc) ==
  IF m >= n THEN acc
  ELSE LET i == acc.ri[m]
           r == acc.rp[m]
           d == D[i]
           tw == DivSqrt(r, d)
           tn == FAbs(Div(r, d))
           better == AbsGT(tw, acc.w)
       IN init_scan_nobeta(m + 1, n,
            [acc EXCEPT !.w = IF better THEN tw ELSE @,
                        !.s = IF better THEN i ELSE @,
                        !.norm = Add(@, tn)])

RECURSIVE init_scan(_, _, _)
\* entries m..rnz-1 of the initial residual: zero beta, find s and w, sum norm
init_scan(m, n, acc) ==
  IF m >= n THEN acc
  ELSE LET i == acc.ri[m]
           r == acc.rp[m]
           d == D[i]
           tw == DivSqrt(r, d)
           tn == FAbs(Div(r, d))
           better == AbsGT(tw, acc.w)
       IN init_scan(m + 1, n,
            [acc EXCEPT !.beta = [@ EXCEPT ![i] = Zero],
                        !.bw = @ \cup {i},
                        !.w = IF better THEN tw ELSE @,
                        !.s = IF better THEN i ELSE @,
                        !.norm = IF STOP_TEST = 1
                                 THEN (IF RatGT(tn, @) THEN tn ELSE @)
                                 ELSE Add(@, tn)])

\* memcpy of n cells from src, starting at from, to the front of dst
Memcpy(dst, src, from, n) ==
  [h \in DOMAIN dst |-> IF h < n THEN src[from + h] ELSE dst[h]]

\* put_jc that stores the cursor's address for its offset
put_jc_cursor == [jc EXCEPT ![jcp] = irp]

\* *jcp = iri: record the start of column j in X_skel
put_jc == [jc EXCEPT ![jcp] = iri]

\* a column of B without stored entries: its start is recorded, nothing else
EmptyColumn ==
  /\ pc = "col" /\ j < nc
  /\ B.jc[j + 1] - B.jc[j] < 1
  /\ k' = 0 /\ Qi' = irp /\ qk' = QBase
  /\ jc' = put_jc
  /\ jcp' = jcp + 1
  /\ rnz' = B.jc[j + 1] - B.jc[j]
  /\ j' = j + 1
  /\ UNCHANGED <<inp, junk, call, prevOut, pc, nzmax, irBase, irData, irp, iri, max_Q, QBase,
                 QData, beta, rp, Aqk_p, sp, ri, Aqk_i, si, map_to_Qi, flag,
                 Aqk_nz, yn, s, w, norm, X_sum, betaW, spW, QW>>

\* the initial residual B e_j, the first pivot candidate and the first norm
ColumnInit ==
  /\ pc = "col" /\ j < nc
  /\ B.jc[j + 1] - B.jc[j] >= 1
  /\ k' = 0 /\ Qi' = irp /\ qk' = QBase
  /\ jc' = put_jc
  /\ jcp' = jcp + 1
  /\ LET n == B.jc[j + 1] - B.jc[j]
         ri1 == Memcpy(ri, B.ir, B.jc[j], n)
         rp1 == Memcpy(rp, B.pr, B.jc[j], n)
         s0 == ri1[0]
         fin == init_scan(1, n,
                  [ri |-> ri1, rp |-> rp1, s |-> s0,
                   beta |-> [beta EXCEPT ![s0] = Zero], bw |-> {s0},
                   w |-> DivSqrt(rp1[0], D[s0]),
                   norm |-> FAbs(Div(rp1[0], D[s0]))])
     IN /\ rnz' = n /\ ri' = ri1 /\ rp' = rp1
        /\ s' = fin.s /\ w' = fin.w /\ norm' = fin.norm /\ beta' = fin.beta
        /\ betaW' = fin.bw
  /\ spW' = {} /\ QW' = {}
  /\ pc' = "test"
  /\ UNCHANGED <<inp, junk, call, prevOut, j, nzmax, irBase, irData, irp, iri, max_Q, QBase,
                 QData, Aqk_p, sp, Aqk_i, si, map_to_Qi, flag, Aqk_nz, yn, X_sum>>

\* while(norm>tol)
LoopTest ==
  /\ pc = "test"
  /\ pc' = IF RatGT(norm, tol) THEN "grow" ELSE "sort"
  /\ UNCHANGED <<inp, junk, call, prevOut, j, jcp, jc, nzmax, irBase, irData, irp, iri, Qi,
                 max_Q, QBase, QData, qk, beta, rp, Aqk_p, sp, ri, Aqk_i, si,
                 map_to_Qi, flag, rnz, Aqk_nz, yn, k, s, w, norm, X_sum,
                 betaW, spW, QW>>

\* -------------------------------------------------------- growing buffers
\* mem_realloc to n cells: the old contents are kept, the new cells are garbage
Realloc(data, n, fill) ==
  [o \in 0..(n - 1) |-> IF o \in DOMAIN data THEN data[o] ELSE fill]

\* grow_ir that leaves Qi pointing into the old block
grow_ir_stale_Qi(nb) ==
  IF iri = nzmax
  THEN [nzmax |-> 2 * nzmax, base |-> nb,
        data |-> Realloc(irData, 2 * nzmax, junk),
        irp |-> nb + iri, Qi |-> Qi]
  ELSE [nzmax |-> nzmax, base |-> irBase, data |-> irData, irp |-> irp, Qi |-> Qi]

\* check if we underestimated nnz(X_skel); nb is where realloc puts the buffer
grow_ir(nb) ==
  IF iri = nzmax
  THEN LET d == Qi - irBase
       IN [nzmax |-> 2 * nzmax, base |-> nb,
           data |-> Realloc(irData, 2 * nzmax, junk),
           irp |-> nb + iri, Qi |-> nb + d]
  ELSE [nzmax |-> nzmax, base |-> irBase, data |-> irData, irp |-> irp, Qi |-> Qi]

\* check if we underestimated dim(Q); nb is where realloc puts the buffer
grow_Q(nb) ==
  IF k + 1 > max_Q
  THEN LET d == qk - QBase
       IN [max_Q |-> 2 * max_Q, base |-> nb,
           data |-> Realloc(QData, QSize(2 * max_Q), JunkVal), qk |-> nb + d]
  ELSE [max_Q |-> max_Q, base |-> QBase, data |-> QData, qk |-> qk]

\* realloc may extend the block in place or move it to a fresh block, which
\* lies beyond every block handed out before
Grow ==
  /\ pc = "grow"
  /\ \E nbI \in {irBase, 2 * nzmax}, nbQ \in {QBase, QSize(2 * max_Q)} :
       LET gi == grow_ir(nbI)
           gq == grow_Q(nbQ)
       IN /\ nzmax' = gi.nzmax /\ irBase' = gi.base /\ irData' = gi.data
          /\ irp' = gi.irp /\ Qi' = gi.Qi
          /\ max_Q' = gq.max_Q /\ QBase' = gq.base /\ QData' = gq.data
          /\ qk' = gq.qk
  /\ pc' = "record"
  /\ UNCHANGED <<inp, junk, call, prevOut, j, jcp, jc, iri, beta, rp, Aqk_p, sp, ri, Aqk_i, si,
                 map_to_Qi, flag, rnz, Aqk_nz, yn, k, s, w, norm, X_sum,
                 betaW, spW, QW>>

\* record_pivot without the update of the inverse map
record_pivot_nomap ==
  [data |-> IF (irp - irBase) \in DOMAIN irData
            THEN [irData EXCEPT ![irp - irBase] = s] ELSE irData,
   irp |-> irp + 1, iri |-> iri + 1,
   map |-> map_to_Qi]

\* *irp++=s, ++iri; map_to_Qi[s]=k
record_pivot ==
  [data |-> IF (irp - irBase) \in DOMAIN irData
            THEN [irData EXCEPT ![irp - irBase] = s] ELSE irData,
   irp |-> irp + 1, iri |-> iri + 1,
   map |-> [map_to_Qi EXCEPT ![s] = k]]

Record ==
  /\ pc = "record"
  /\ LET r == record_pivot
     IN /\ irData' = r.data /\ irp' = r.irp /\ iri' = r.iri
        /\ map_to_Qi' = r.map
  /\ pc' = "basis"
  /\ UNCHANGED <<inp, junk, call, prevOut, j, jcp, jc, nzmax, irBase, Qi, max_Q, QBase, QData,
                 qk, beta, rp, Aqk_p, sp, ri, Aqk_i, si, flag, rnz, Aqk_nz, yn,
                 k, s, w, norm, X_sum, betaW, spW, QW>>

\* ------------------------------------------------- the new column of Q
RECURSIVE sp_restrict_scatter(_, _, _, _, _)
\* entries h..e-1 of a column of A, scattered to the cells map points to
sp_restrict_scatter(out, qo, map, h, e) ==
  IF h >= e THEN out
  ELSE LET i == map[A.ir[h]]
       IN sp_restrict_scatter(
            IF i >= 0 THEN [out EXCEPT ![qo + i] = A.pr[h]] ELSE out,
            qo, map, h + 1, e)

\* gather the sparse vector (entries h..e-1 of A) into out[qo .. qo+n-1]
sp_restrict_unsorted(out, qo, n, map, h, e) ==
  sp_restrict_scatter(
    [o \in DOMAIN out |-> IF qo <= o /\ o < qo + n THEN Zero ELSE out[o]],
    qo, map, h, e)

RECURSIVE utt_dot(_, _, _, _, _)
\* sum over m = from..l of U[l(l+1)/2 + m] * x[qo + m]
utt_dot(U, x, qo, l, from) ==
  IF from > l THEN Zero
  ELSE Add(Mul(U[QSize(l) + from], x[qo + from]), utt_dot(U, x, qo, l, from + 1))

\* y[0..n-1] := U^t x, U packed upper triangular, x = out[qo ..]
mv_utt(y, n, U, x, qo) ==
  [l \in DOMAIN y |-> IF l < n THEN utt_dot(U, x, qo, l, 0) ELSE y[l]]

RECURSIVE ut_dot(_, _, _, _, _)
\* sum over l = from..n-1 of U[l(l+1)/2 + m] * x[l]
ut_dot(U, x, m, n, from) ==
  IF from >= n THEN Zero
  ELSE Add(Mul(U[QSize(from) + m], x[from]), ut_dot(U, x, m, n, from + 1))

\* y[qo .. qo+n-1] := U x, and y[qo+n] := 0
mv_ut(y, qo, n, U, x) ==
  [o \in DOMAIN y |->
     IF qo <= o /\ o < qo + n THEN ut_dot(U, x, o - qo, n, o - qo)
     ELSE IF o = qo + n THEN Zero ELSE y[o]]

\* set Q e_k = qk := alpha^{-1} (I - Q Q^t A) e_s
scale_qk(Q, qo) ==
  LET norm_fac == DivSqrt(Rat(-1, 1), Sub(D[s], beta[s]))
  IN [o \in DOMAIN Q |->
        IF qo <= o /\ o < qo + k THEN Mul(Q[o], norm_fac)
        ELSE IF o = qo + k THEN Neg(norm_fac) ELSE Q[o]]

\* calculate Q Q^t A e_s and normalise: the (k+1)th column of Q
Basis ==
  /\ pc = "basis"
  /\ LET qo == qk - QBase
         Q1 == sp_restrict_unsorted(QData, qo, k, map_to_Qi, A.jc[s], A.jc[s + 1])
         sp1 == mv_utt(sp, k, Q1, Q1, qo)
         Q2 == mv_ut(Q1, qo, k, Q1, sp1)
     IN /\ sp' = sp1
        /\ QData' = scale_qk(Q2, qo)
        /\ spW' = spW \cup 0..(k - 1)
        /\ QW' = QW \cup qo..(qo + k)
  /\ pc' = "accum"
  /\ UNCHANGED <<inp, junk, call, prevOut, j, jcp, jc, nzmax, irBase, irData, irp, iri, Qi,
                 max_Q, QBase, qk, beta, rp, Aqk_p, ri, Aqk_i, si, map_to_Qi,
                 flag, rnz, Aqk_nz, yn, k, s, w, norm, X_sum, betaW>>

RECURSIVE x_sum_add(_, _, _)
\* for(m=0;m<=k;++m) X_sum[Qi[m]] += ujw*qk[m]
x_sum_add(xs, ujw, m) ==
  IF m > k THEN xs
  ELSE x_sum_add([xs EXCEPT ![IrAt(Qi + m)] = Add(@, Mul(ujw, QAt(qk + m)))],
                 ujw, m + 1)

\* X e_j += w Q e_k,  so sum_j u_j X e_j += u_j w Q e_k
Accum ==
  /\ pc = "accum"
  /\ X_sum' = x_sum_add(X_sum, Mul(u[j], w), 0)
  /\ pc' = "spmv"
  /\ UNCHANGED <<inp, junk, call, prevOut, j, jcp, jc, nzmax, irBase, irData, irp, iri, Qi,
                 max_Q, QBase, QData, qk, beta, rp, Aqk_p, sp, ri, Aqk_i, si,
                 map_to_Qi, flag, rnz, Aqk_nz, yn, k, s, w, norm, betaW, spW, QW>>

\* ------------------------------------------------------------------ sp_mv
\* heap[h] is yi[h-1]
RECURSIVE sp_mv_sift_up(_, _, _)
\* while(hole>1) { move the parent down unless i<ip }  heap[hole]=i
sp_mv_sift_up(yi, hole, i) ==
  IF hole > 1 /\ ~(i < yi[(hole \div 2) - 1])
  THEN sp_mv_sift_up([yi EXCEPT ![hole - 1] = yi[(hole \div 2) - 1]], hole \div 2, i)
  ELSE [yi EXCEPT ![hole - 1] = i]

\* sp_mv_entry without sv[i]=0 for a row met for the first time
sp_mv_entry_nozero(acc, i, a, xj, mask) ==
  IF mask[i] >= 0 THEN acc
  ELSE LET fresh == acc.flag[i] = 0
           a1 == IF fresh
                 THEN [acc EXCEPT !.yn = @ + 1,
                                  !.yi = sp_mv_sift_up(@, acc.yn + 1, i),
                                  !.flag = [@ EXCEPT ![i] = 1],
                                  !.svw = @ \cup {i}]
                 ELSE acc
       IN [a1 EXCEPT !.sv = [@ EXCEPT ![i] = Add(@, Mul(a, xj))]]

\* one entry (row i, value a) of column j of A, times xj
sp_mv_entry(acc, i, a, xj, mask) ==
  IF mask[i] >= 0 THEN acc
  ELSE LET fresh == acc.flag[i] = 0
           a1 == IF fresh
                 THEN [acc EXCEPT !.yn = @ + 1,
                                  !.yi = sp_mv_sift_up(@, acc.yn + 1, i),
                                  !.flag = [@ EXCEPT ![i] = 1],
                                  !.sv = [@ EXCEPT ![i] = Zero],
                                  !.svw = @ \cup {i}]
                 ELSE acc
       IN [a1 EXCEPT !.sv = [@ EXCEPT ![i] = Add(@, Mul(a, xj))]]

RECURSIVE sp_mv_column(_, _, _, _, _, _)
\* entries h..e-1 of a column of Amat
sp_mv_column(acc, Amat, h, e, xj, mask) ==
  IF h >= e THEN acc
  ELSE sp_mv_column(sp_mv_entry(acc, Amat.ir[h], Amat.pr[h], xj, mask),
                    Amat, h + 1, e, xj, mask)

RECURSIVE sp_mv_accum(_, _, _, _, _, _, _)
\* the first loop of sp_mv, from entry t of x on: sv := A x where the mask
\* allows, the rows touched pushed on the heap yi
sp_mv_accum(acc, Amat, xn, xi, x, t, mask) ==
  IF t >= xn THEN acc
  ELSE sp_mv_accum(
         IF IsZero(x[t]) THEN acc
         ELSE sp_mv_column(acc, Amat, Amat.jc[xi[t]], Amat.jc[xi[t] + 1], x[t], mask),
         Amat, xn, xi, x, t + 1, mask)

RECURSIVE sp_mv_sift_down(_, _, _, _)
\* the hole moves down while a child within the heap (size hi - 1) exceeds i
sp_mv_sift_down(yi, hole, i, hi) ==
  LET c0 == 2 * hole
      r == c0 + 1
      child == IF r < hi /\ yi[r - 1] > yi[c0 - 1] THEN r ELSE c0
  IN IF child >= hi \/ i >= yi[child - 1]
     THEN [yi EXCEPT ![hole - 1] = i]
     ELSE sp_mv_sift_down([yi EXCEPT ![hole - 1] = yi[child - 1]], child, i, hi)

RECURSIVE sp_mv_sort(_, _)
\* for(hi=yn;hi>1;--hi): the maximum goes to heap[hi]
sp_mv_sort(yi, hi) ==
  IF hi <= 1 THEN yi
  ELSE sp_mv_sort(sp_mv_sift_down([yi EXCEPT ![hi - 1] = yi[0]], 1, yi[hi - 1], hi),
                  hi - 1)

\* the end of sp_mv: sort the heap, copy sv out and clear flag
sp_mv_drain(acc, y) ==
  LET sorted == sp_mv_sort(acc.yi, acc.yn)
      out == {sorted[h] : h \in 0..(acc.yn - 1)}
  IN [yn |-> acc.yn, yi |-> sorted,
      y |-> [h \in DOMAIN y |-> IF h < acc.yn THEN acc.sv[sorted[h]] ELSE y[h]],
      flag |-> [i \in DOMAIN acc.flag |-> IF i \in out THEN 0 ELSE acc.flag[i]]]

\* the x of the call: Qi[0..k], qk[0..k]
XIdx == [t \in 0..k |-> IrAt(Qi + t)]
XVal == [t \in 0..k |-> QAt(qk + t)]

\* calculate A qk: accumulation
SpMvAccum ==
  /\ pc = "spmv"
  /\ LET acc == sp_mv_accum([yn |-> 0, yi |-> Aqk_i, flag |-> flag, sv |-> sp,
                             svw |-> {}],
                            A, k + 1, XIdx, XVal, 0, map_to_Qi)
     IN /\ yn' = acc.yn /\ Aqk_i' = acc.yi /\ flag' = acc.flag /\ sp' = acc.sv
        /\ spW' = spW \cup acc.svw
  /\ pc' = "drain"
  /\ UNCHANGED <<inp, junk, call, prevOut, j, jcp, jc, nzmax, irBase, irData, irp, iri, Qi,
                 max_Q, QBase, QData, qk, beta, rp, Aqk_p, ri, si, map_to_Qi,
                 rnz, Aqk_nz, k, s, w, norm, X_sum, betaW, QW>>

\* calculate A qk: sorted output
SpMvDrain ==
  /\ pc = "drain"
  /\ LET res == sp_mv_drain([yn |-> yn, yi |-> Aqk_i, flag |-> flag, sv |-> sp],
                            Aqk_p)
     IN /\ Aqk_nz' = res.yn /\ Aqk_i' = res.yi /\ Aqk_p' = res.y
        /\ flag' = res.flag
  /\ pc' = "resid"
  /\ UNCHANGED <<inp, junk, call, prevOut, j, jcp, jc, nzmax, irBase, irData, irp, iri, Qi,
                 max_Q, QBase, QData, qk, beta, rp, sp, ri, si, map_to_Qi,
                 rnz, yn, k, s, w, norm, X_sum, betaW, spW, QW>>

\* ----------------------------------------------------------- resid_update
\* resid_emit as built with IGNORE_MASK
resid_emit_nomask(acc, i, v, mask) ==
  [acc EXCEPT !.rnz = @ + 1,
              !.ri = [@ EXCEPT ![acc.rnz] = i],
              !.rp = [@ EXCEPT ![acc.rnz] = v]]

\* ++rnz, *ri++ = i, *rp++ = v, where the mask allows
resid_emit(acc, i, v, mask) ==
  IF mask[i] < 0
  THEN [acc EXCEPT !.rnz = @ + 1,
                   !.ri = [@ EXCEPT ![acc.rnz] = i],
                   !.rp = [@ EXCEPT ![acc.rnz] = v]]
  ELSE acc

RECURSIVE resid_merge(_, _, _, _, _, _, _, _, _, _)
\* the merge of x (from entry a) and y (from entry b): the three-way loop
\* while both have entries left, then the rest of x, then the rest of y
resid_merge(acc, xn, xi, xp, alpha, ynn, yi, yp, mask, ab) ==
  LET a == ab[1]
      b == ab[2]
  IN IF a < xn /\ b < ynn
     THEN IF xi[a] < yi[b]
          THEN resid_merge(resid_emit(acc, xi[a], xp[a], mask),
                           xn, xi, xp, alpha, ynn, yi, yp, mask, <<a + 1, b>>)
          ELSE IF xi[a] > yi[b]
          THEN resid_merge(
                 resid_emit([acc EXCEPT !.beta = [@ EXCEPT ![yi[b]] = Sq(yp[b])],
                                        !.bw = @ \cup {yi[b]}],
                            yi[b], Neg(Mul(alpha, yp[b])), mask),
                 xn, xi, xp, alpha, ynn, yi, yp, mask, <<a, b + 1>>)
          ELSE resid_merge(
                 resid_emit([acc EXCEPT !.beta = [@ EXCEPT ![yi[b]] = Add(@, Sq(yp[b]))],
                                        !.bw = @ \cup {yi[b]},
                                        !.br = @ \cup {yi[b]}],
                            yi[b], Sub(xp[a], Mul(alpha, yp[b])), mask),
                 xn, xi, xp, alpha, ynn, yi, yp, mask, <<a + 1, b + 1>>)
     ELSE IF a < xn
     THEN resid_merge(resid_emit(acc, xi[a], xp[a], mask),
                      xn, xi, xp, alpha, ynn, yi, yp, mask, <<a + 1, b>>)
     ELSE IF b < ynn
     THEN resid_merge(
            resid_emit([acc EXCEPT !.beta = [@ EXCEPT ![yi[b]] = Sq(yp[b])],
                                   !.bw = @ \cup {yi[b]}],
                       yi[b], Neg(Mul(alpha, yp[b])), mask),
            xn, xi, xp, alpha, ynn, yi, yp, mask, <<a, b + 1>>)
     ELSE acc

\* r := x - alpha * y where mask < 0, beta := beta + y .* y
\* (bw: cells of beta written, br: cells of beta read)
resid_update(rix, rpx, bet, xn, xi, xp, alpha, ynn, yi, yp, mask) ==
  resid_merge([rnz |-> 0, ri |-> rix, rp |-> rpx, beta |-> bet, bw |-> {}, br |-> {}],
              xn, xi, xp, alpha, ynn, yi, yp, mask, <<0, 0>>)

\* r := r - w Aqk, beta := beta + Aqk .* Aqk
Resid ==
  /\ pc = "resid"
  /\ LET si1 == Memcpy(si, ri, 0, rnz)
         sp1 == Memcpy(sp, rp, 0, rnz)
         res == resid_update(ri, rp, beta, rnz, si1, sp1, w,
                             Aqk_nz, Aqk_i, Aqk_p, map_to_Qi)
     IN /\ si' = si1 /\ sp' = sp1
        /\ rnz' = res.rnz /\ ri' = res.ri /\ rp' = res.rp /\ beta' = res.beta
        /\ betaW' = betaW \cup res.bw
        /\ spW' = spW \cup 0..(rnz - 1)
  /\ pc' = "rescan"
  /\ UNCHANGED <<inp, junk, call, prevOut, j, jcp, jc, nzmax, irBase, irData, irp, iri, Qi,
                 max_Q, QBase, QData, qk, Aqk_p, Aqk_i, map_to_Qi, flag,
                 Aqk_nz, yn, k, s, w, norm, X_sum, QW>>

\* ----------------------------------------------- find best s, recompute norm
RECURSIVE rescan(_, _)
rescan(mm, acc) ==
  IF mm >= rnz THEN acc
  ELSE LET i == ri[mm]
           r == rp[mm]
           d == Sub(D[i], beta[i])
           tn == FAbs(Div(r, d))
           tw == DivSqrt(r, d)
           better == AbsGT(tw, acc.w)
       IN rescan(mm + 1,
            [w |-> IF better THEN tw ELSE acc.w,
             s |-> IF better THEN i ELSE acc.s,
             norm |-> IF STOP_TEST = 1
                      THEN (IF RatGT(tn, acc.norm) THEN tn ELSE acc.norm)
                      ELSE Add(acc.norm, tn)])

\* best_pivot that adds to the norm of the iteration before
best_pivot_stale ==
  IF rnz > 0
  THEN rescan(1, [s |-> ri[0],
                  w |-> DivSqrt(rp[0], Sub(D[ri[0]], beta[ri[0]])),
                  norm |-> Add(norm, FAbs(Div(rp[0], Sub(D[ri[0]], beta[ri[0]]))))])
  ELSE [s |-> s, w |-> w, norm |-> Zero]

best_pivot ==
  IF rnz > 0
  THEN rescan(1, [s |-> ri[0],
                  w |-> DivSqrt(rp[0], Sub(D[ri[0]], beta[ri[0]])),
                  norm |-> FAbs(Div(rp[0], Sub(D[ri[0]], beta[ri[0]])))])
  ELSE [s |-> s, w |-> w, norm |-> Zero]

Rescan ==
  /\ pc = "rescan"
  /\ LET b == best_pivot
     IN s' = b.s /\ w' = b.w /\ norm' = b.norm
  /\ k' = k + 1
  /\ qk' = qk + (k + 1)
  /\ pc' = "test"
  /\ UNCHANGED <<inp, junk, call, prevOut, j, jcp, jc, nzmax, irBase, irData, irp, iri, Qi,
                 max_Q, QBase, QData, beta, rp, Aqk_p, sp, ri, Aqk_i, si,
                 map_to_Qi, flag, rnz, Aqk_nz, yn, X_sum, betaW, spW, QW>>

\* -------------------------------------------------------------- heap_sort
\* heap[h] is uv[o + h - 1]
RECURSIVE heap_sort_sift_up(_, _, _, _)
\* do { move the parent down unless v<vp } while(hole>1); heap[hole]=v
heap_sort_sift_up(uv, o, hole, v) ==
  LET parent == hole \div 2
      vp == uv[o + parent - 1]
  IN IF v < vp THEN [uv EXCEPT ![o + hole - 1] = v]
     ELSE IF parent > 1
          THEN heap_sort_sift_up([uv EXCEPT ![o + hole - 1] = vp], o, parent, v)
          ELSE [uv EXCEPT ![o + hole - 1] = vp, ![o + parent - 1] = v]

RECURSIVE heap_sort_build(_, _, _, _)
\* for(i=2;i<=un;++i) if(heap[i]>heap[i>>1]) sift heap[i] up
heap_sort_build(uv, o, un, i) ==
  IF i > un THEN uv
  ELSE heap_sort_build(
         IF uv[o + i - 1] > uv[o + (i \div 2) - 1]
         THEN heap_sort_sift_up(uv, o, i, uv[o + i - 1]) ELSE uv,
         o, un, i + 1)

RECURSIVE heap_sort_sift_down(_, _, _, _, _)
heap_sort_sift_down(uv, o, hole, v, i) ==
  LET c0 == 2 * hole
      r == c0 + 1
      child == IF r < i /\ uv[o + r - 1] > uv[o + c0 - 1] THEN r ELSE c0
  IN IF child >= i \/ v >= uv[o + child - 1]
     THEN [uv EXCEPT ![o + hole - 1] = v]
     ELSE heap_sort_sift_down([uv EXCEPT ![o + hole - 1] = uv[o + child - 1]],
                              o, child, v, i)

RECURSIVE heap_sort_drain(_, _, _)
\* for(i=un;i>1;--i): the maximum goes to heap[i]
heap_sort_drain(uv, o, i) ==
  IF i <= 1 THEN uv
  ELSE heap_sort_drain(
         heap_sort_sift_down([uv EXCEPT ![o + i - 1] = uv[o]], o, 1, uv[o + i - 1], i),
         o, i - 1)

\* heap_sort that stops once the heap is built
heap_sort_build_only(un, uv, o) == heap_sort_build(uv, o, un, 2)

\* sorts the un cells of uv from offset o on
heap_sort(un, uv, o) == heap_sort_drain(heap_sort_build(uv, o, un, 2), o, un)

\* sort the non-zero indices for column j
Sort ==
  /\ pc = "sort"
  /\ irData' = heap_sort(k, irData, Qi - irBase)
  /\ pc' = "clear"
  /\ UNCHANGED <<inp, junk, call, prevOut, j, jcp, jc, nzmax, irBase, irp, iri, Qi,
                 max_Q, QBase, QData, qk, beta, rp, Aqk_p, sp, ri, Aqk_i, si,
                 map_to_Qi, flag, rnz, Aqk_nz, yn, k, s, w, norm, X_sum,
                 betaW, spW, QW>>

\* clear_map that stops one pivot short
clear_map_short ==
  [i \in DOMAIN map_to_Qi |->
     IF \E m \in 0..(k - 2) : IrAt(Qi + m) = i THEN -1 ELSE map_to_Qi[i]]

\* for(m=0;m<k;++m) map_to_Qi[Qi[m]] = -1
clear_map ==
  [i \in DOMAIN map_to_Qi |->
     IF \E m \in 0..(k - 1) : IrAt(Qi + m) = i THEN -1 ELSE map_to_Qi[i]]

Clear ==
  /\ pc = "clear"
  /\ map_to_Qi' = clear_map
  /\ j' = j + 1
  /\ pc' = "col"
  /\ UNCHANGED <<inp, junk, call, prevOut, jcp, jc, nzmax, irBase, irData, irp, iri, Qi,
                 max_Q, QBase, QData, qk, beta, rp, Aqk_p, sp, ri, Aqk_i, si,
                 flag, rnz, Aqk_nz, yn, k, s, w, norm, X_sum, betaW, spW, QW>>

\* *jcp++ = iri after the last column
Finish ==
  /\ pc = "col" /\ j >= nc
  /\ jc' = put_jc
  /\ jcp' = jcp + 1
  /\ pc' = "done"
  /\ UNCHANGED <<inp, junk, call, prevOut, j, nzmax, irBase, irData, irp, iri, Qi,
                 max_Q, QBase, QData, qk, beta, rp, Aqk_p, sp, ri, Aqk_i, si,
                 map_to_Qi, flag, rnz, Aqk_nz, yn, k, s, w, norm, X_sum,
                 betaW, spW, QW>>

\* what mexFunction copies out: jc, the first jc[n] cells of ir, X_sum
Outputs ==
  [jc |-> jc, ir |-> [o \in 0..(jc[nc] - 1) |-> irData[o]], X_sum |-> X_sum]

\* the solver called again on the same inputs: every buffer is allocated
\* afresh, with other garbage in it
Recall ==
  /\ pc = "done" /\ call = 1
  /\ LET b == B
         rows == 0..(b.m - 1)
         g == Junks[2]
     IN /\ junk' = g
        /\ jc' = [c \in 0..b.n |-> g]
        /\ nzmax' = 2 * b.jc[b.n]
        /\ irBase' = 0
        /\ irData' = [o \in 0..(2 * b.jc[b.n] - 1) |-> g]
        /\ Qi' = g /\ qk' = g
        /\ QData' = [o \in 0..(QSize(InitMaxQ) - 1) |-> Rat(g, 1)]
        /\ beta' = [i \in rows |-> Rat(g, 1)]
        /\ rp' = [i \in rows |-> Rat(g, 1)]
        /\ Aqk_p' = [i \in rows |-> Rat(g, 1)]
        /\ sp' = [i \in rows |-> Rat(g, 1)]
        /\ ri' = [i \in rows |-> g]
        /\ Aqk_i' = [i \in rows |-> g]
        /\ si' = [i \in rows |-> g]
        /\ map_to_Qi' = [i \in rows |-> -1]
        /\ flag' = [i \in rows |-> 0]
        /\ rnz' = g /\ Aqk_nz' = g /\ yn' = g /\ k' = g /\ s' = g
        /\ w' = Rat(g, 1) /\ norm' = Rat(g, 1)
        /\ X_sum' = [i \in rows |-> Zero]
  /\ call' = 2 /\ prevOut' = Outputs
  /\ pc' = "col"
  /\ j' = 0 /\ jcp' = 0 /\ irp' = 0 /\ iri' = 0
  /\ max_Q' = InitMaxQ /\ QBase' = 0
  /\ betaW' = {} /\ spW' = {} /\ QW' = {}
  /\ UNCHANGED inp

Next ==
  \/ EmptyColumn \/ ColumnInit \/ LoopTest \/ Grow \/ Record \/ Basis \/ Accum
  \/ SpMvAccum \/ SpMvDrain \/ Resid \/ Rescan \/ Sort \/ Clear \/ Finish
  \/ Recall

Spec == Init /\ [][Next]_vars

\* ------------------------------------------- sp_mv and resid_update alone
\* The two routines called on arguments of every shape within the bounds:
\* the state is that of interp_skel at the call, with the buffers holding
\* the arguments.
MaxXn == 3
XVals == {<<0, 1, 1, 1>>, <<1, 1, 1, 1>>, <<-2, 1, 1, 1>>}
Alphas == {<<1, 1, 1, 1>>, <<-1, 2, 1, 1>>}
Masks == [0..(NF - 1) -> {-1, 0}]
NoTarget == [c \in 1..NC |-> "empty"]

\* what the variables without a part in the call hold
AtCall(in, g, p) ==
  /\ inp = in /\ junk = g /\ call = 1 /\ prevOut = <<>>
  /\ pc = p
  /\ j = 0 /\ jcp = 1 /\ jc = [c \in 0..NC |-> 0]
  /\ nzmax = NF /\ irBase = 0 /\ Qi = 0
  /\ max_Q = MaxXn /\ QBase = 0 /\ qk = 0
  /\ si = [i \in 0..(NF - 1) |-> g]
  /\ flag = [i \in 0..(NF - 1) |-> 0]
  /\ yn = g /\ s = g /\ norm = Rat(g, 1)
  /\ X_sum = [i \in 0..(NF - 1) |-> Zero]
  /\ betaW = {} /\ spW = {} /\ QW = {}

\* sp_mv about to be called with x = (xi, xv), mask mk and garbage in sv
InitSpMv ==
  \E ak \in {"tri", "arrow"}, n \in 0..MaxXn, mk \in Masks :
    \E xi \in [0..(n - 1) -> 0..(NF - 1)], xv \in [0..(n - 1) -> XVals] :
      /\ \A a, b \in 0..(n - 1) : a # b => xi[a] # xi[b]
      /\ AtCall([ak |-> ak, bk |-> NoTarget, tau |-> <<1, 1, 1, 1>>], Junks[2], "spmv")
      /\ k = n - 1
      /\ irData = [o \in 0..(NF - 1) |-> IF o < n THEN xi[o] ELSE Junks[2]]
      /\ irp = n /\ iri = n
      /\ QData = [o \in 0..(MaxXn - 1) |-> IF o < n THEN xv[o] ELSE Rat(Junks[2], 1)]
      /\ map_to_Qi = mk
      /\ sp = [i \in 0..(NF - 1) |-> Rat(Junks[2], 1)]
      /\ beta = [i \in 0..(NF - 1) |-> Zero]
      /\ rnz = 0 /\ Aqk_nz = Junks[2] /\ w = Rat(1, 1)
      /\ ri = [i \in 0..(NF - 1) |-> Junks[2]]
      /\ rp = [i \in 0..(NF - 1) |-> Rat(Junks[2], 1)]
      /\ Aqk_i = [i \in 0..(NF - 1) |-> Junks[2]]
      /\ Aqk_p = [i \in 0..(NF - 1) |-> Rat(Junks[2], 1)]

NextSpMv == SpMvAccum \/ SpMvDrain

SpecSpMv == InitSpMv /\ [][NextSpMv]_vars

\* the sparse vector with support S and value f(i) at row i, in a buffer
SparseIdx(S, g) ==
  LET q == SortedSeq(S)
  IN [h \in 0..(NF - 1) |-> IF h < Len(q) THEN q[h + 1] ELSE g]

\* resid_update about to be called with x on X, y on Y, alpha and mask mk
InitResid ==
  \E X \in SUBSET (0..(NF - 1)), Y \in SUBSET (0..(NF - 1)), mk \in Masks,
     al \in Alphas :
    /\ AtCall([ak |-> "id", bk |-> NoTarget, tau |-> <<1, 1, 1, 1>>], Junks[2], "resid")
    /\ k = 0 /\ irp = 0 /\ iri = 0
    /\ irData = [o \in 0..(NF - 1) |-> Junks[2]]
    /\ QData = [o \in 0..0 |-> Rat(Junks[2], 1)]
    /\ map_to_Qi = mk
    /\ sp = [i \in 0..(NF - 1) |-> Rat(Junks[2], 1)]
    /\ beta = [i \in 0..(NF - 1) |-> Rat(i + 10, 1)]
    /\ rnz = Cardinality(X)
    /\ ri = SparseIdx(X, Junks[2])
    /\ rp = [h \in 0..(NF - 1) |->
               IF h < Cardinality(X) THEN Rat(SparseIdx(X, 0)[h] + 1, 1)
               ELSE Rat(Junks[2], 1)]
    /\ Aqk_nz = Cardinality(Y)
    /\ Aqk_i = SparseIdx(Y, Junks[2])
    /\ Aqk_p = [h \in 0..(NF - 1) |->
                  IF h < Cardinality(Y) THEN Rat(2 * SparseIdx(Y, 0)[h] - 3, 1)
                  ELSE Rat(Junks[2], 1)]
    /\ w = al

NextResid == Resid

SpecResid == InitResid /\ [][NextResid]_vars

\* ================================================================= claims
InColumn ==
  pc \in {"test", "grow", "record", "basis", "accum", "spmv", "drain", "resid",
          "rescan", "sort", "clear"}

\* the pivots recorded so far for the column being worked on
Pivots == {IrAt(Qi + m) : m \in 0..(irp - Qi - 1)}

\* the support of the residual
Support == {ri[h] : h \in 0..(rnz - 1)}

\* the rows stored in column c of X_skel
SkelRows(c) == {irData[h] : h \in jc[c]..(jc[c + 1] - 1)}

\* C1: when interp_skel has returned, the row indices stored for every
\* column of X_skel are strictly ascending.
C1_Sorted ==
  pc = "done" =>
    \A c \in 0..(nc - 1) : \A h \in jc[c]..(jc[c + 1] - 2) : irData[h] < irData[h + 1]

\* a column whose first pivot was its last row and which got three rows
C1_Witness ==
  /\ pc = "done" /\ inp.bk[1] = "back" /\ inp.ak = "tri"
  /\ jc[1] - jc[0] >= 3

\* the stored entries of column c of B, as positions into B.ir and B.pr
BPos(c) == B.jc[c]..(B.jc[c + 1] - 1)

\* b_i^2 / D_i for the entry at position h of B
Score(h) == Div(Sq(B.pr[h]), D[B.ir[h]])

\* the row that maximises |b_i|/sqrt(D_i) over column c, the first scanned
\* among equals
FirstArgMax(c) ==
  B.ir[CHOOSE h \in BPos(c) :
         \A g \in BPos(c) : /\ ~RatGT(Score(g), Score(h))
                             /\ (g < h => RatGT(Score(h), Score(g)))]

RECURSIVE SumAbs(_, _)
\* the sum of |b_i / D_i| over the positions in P
SumAbs(P, c) ==
  IF P = {} THEN Zero
  ELSE LET h == CHOOSE h \in P : TRUE
       IN Add(FAbs(Div(B.pr[h], D[B.ir[h]])), SumAbs(P \ {h}, c))

InitNorm(c) == SumAbs(BPos(c), c)

\* C2 as stated: every column of B with a stored entry gets a non-empty
\* skeleton that contains the row maximising |b_i|/sqrt(D_i).
C2_Original ==
  pc = "done" =>
    \A c \in 0..(nc - 1) :
      BPos(c) # {} => jc[c + 1] > jc[c] /\ FirstArgMax(c) \in SkelRows(c)

\* C2 amended: a column of B with a stored entry whose initial stopping norm
\* exceeds tau/2 gets a non-empty skeleton that contains the first-scanned
\* maximiser of |b_i|/sqrt(D_i); one whose initial norm is at most tau/2
\* gets an empty skeleton.
C2_Amended ==
  pc = "done" =>
    \A c \in 0..(nc - 1) :
      BPos(c) # {} =>
        IF RatGT(InitNorm(c), tol)
        THEN jc[c + 1] > jc[c] /\ FirstArgMax(c) \in SkelRows(c)
        ELSE jc[c + 1] = jc[c]

\* one column stopped after its first pivot, which is not the first stored
\* row, and one column with a stored entry below the tolerance
C2_Witness ==
  /\ pc = "done"
  /\ \E c \in 0..(nc - 1) :
       /\ Cardinality(BPos(c)) >= 2 /\ jc[c + 1] - jc[c] = 1
       /\ FirstArgMax(c) # B.ir[B.jc[c]]
  /\ \E c \in 0..(nc - 1) : BPos(c) # {} /\ ~RatGT(InitNorm(c), tol)

\* C3 as stated: the stopping norm never increases from one inner iteration
\* to the next.
C3_Original == [][pc = "rescan" => ~RatGT(norm', norm)]_vars

\* C3 amended: the stopping norm does not increase over an inner iteration
\* in which the masked product A q_k has no entries (every iteration, when
\* A is diagonal).
C3_Amended == [][pc = "rescan" /\ Aqk_nz = 0 => ~RatGT(norm', norm)]_vars

\* an iteration with an empty A q_k that leaves a residual behind
C3_Witness == pc = "test" /\ k >= 1 /\ Aqk_nz = 0 /\ rnz >= 1 /\ RatGT(norm, Zero)

\* C4: a pivot is written inside X_skel.ir and a column of Q inside Q, one
\* doubling being enough; a reallocation of X_skel.ir keeps every row index
\* written so far, and Qi and irp point into the new block at the offsets
\* they had.
C4_Write ==
  pc = "record" =>
    /\ iri < nzmax /\ (irp - irBase) \in DOMAIN irData
    /\ k + 1 <= max_Q /\ (qk - QBase) + k \in DOMAIN QData
    /\ qk - QBase = QSize(k)
    /\ irp = irBase + iri /\ Qi = irBase + jc[j]

C4_Realloc ==
  pc = "grow" =>
    /\ \A o \in 0..(iri - 1) : irData'[o] = irData[o]
    /\ \A m \in 0..(k - 1) : irData'[Qi' - irBase' + m] = IrAt(Qi + m)
    /\ Qi' - irBase' = Qi - irBase
    /\ irp' - irBase' = iri

C4_Growth == [](C4_Write) /\ [][C4_Realloc]_vars

\* X_skel.ir has just been doubled and moved, with columns completed before
\* and pivots of the current column in it
C4_Witness ==
  /\ pc = "record" /\ nzmax = 2 * iri /\ irBase = nzmax
  /\ Qi > irBase /\ irp > Qi

\* C5: map_to_Qi is -1 everywhere before and after every column, and within
\* a column it is >= 0 exactly on the pivots recorded; flag is 0 everywhere
\* when sp_mv is entered and when it has returned.
C5_Clean ==
  /\ pc \in {"col", "done"} => \A i \in 0..(nf - 1) : map_to_Qi[i] = -1
  /\ InColumn => {i \in 0..(nf - 1) : map_to_Qi[i] >= 0} = Pivots
  /\ pc # "drain" => \A i \in 0..(nf - 1) : flag[i] = 0

\* sp_mv has returned rows in a later column that has two pivots
C5_Witness ==
  pc = "resid" /\ j >= 1 /\ Aqk_nz >= 1 /\ Cardinality(Pivots) >= 2

\* C6: no pivot is recorded twice; the pivot about to be recorded lies in the
\* support of the residual with a nonzero value; after resid_update the
\* support of the residual is disjoint from the pivots; the loop body is
\* entered at most rows(A) times in a column.
C6_Pivots ==
  /\ InColumn => Cardinality(Pivots) = irp - Qi /\ k <= nf
  /\ pc \in {"grow", "record"} =>
       /\ \E h \in 0..(rnz - 1) : ri[h] = s /\ ~IsZero(rp[h])
       /\ s \notin Pivots
       /\ k < nf
  /\ pc \in {"rescan", "test", "grow", "sort", "clear"} => Support \cap Pivots = {}

\* the chain of order NF with B = e_0, expanded to every row
C6_Witness ==
  pc = "sort" /\ inp.ak = "tri" /\ inp.bk[1] = "e0" /\ j = 0 /\ k = nf

\* C7: a second call on the same inputs hands back the outputs of the first,
\* whatever the fresh buffers hold; every beta, sv and Q cell read in a
\* column was written earlier in that column.
C7_Reads ==
  /\ pc = "basis" => s \in betaW /\ 0..(qk - QBase - 1) \subseteq QW
  /\ pc \in {"accum", "spmv"} => (qk - QBase)..(qk - QBase + k) \subseteq QW
  /\ pc = "drain" => \A h \in 0..(yn - 1) : Aqk_i[h] \in spW
  /\ pc = "resid" =>
       resid_update(ri, rp, beta, rnz, ri, rp, w, Aqk_nz, Aqk_i, Aqk_p,
                    map_to_Qi).br \subseteq betaW
  /\ pc = "rescan" => Support \subseteq betaW
  /\ pc = "done" /\ call = 2 => Outputs = prevOut

\* the second call has returned, with two rows or more in the first and in
\* the last column
C7_Witness ==
  pc = "done" /\ call = 2 /\ jc[1] >= 2 /\ jc[nc] - jc[nc - 1] >= 2

\* C8: jc[0] = 0, jc is non-decreasing, jc[j+1] - jc[j] is the number of
\* pivots recorded for column j and jc[n] the number of rows written; a
\* column of B without entries gets jc[j+1] = jc[j] and leaves X_sum,
\* X_skel.ir and the work arrays as they are.
C8_Pointers ==
  /\ jc[0] = 0 \/ (pc = "col" /\ j = 0)
  /\ \A c \in 0..(jcp - 2) : jc[c + 1] >= jc[c]
  /\ pc \in {"test", "sort", "clear"} => iri - jc[j] = k /\ irp - Qi = k
  /\ pc = "done" =>
       /\ jc[nc] = iri
       /\ \A c \in 0..(nc - 1) : BPos(c) = {} => jc[c + 1] = jc[c]

C8_Column ==
  /\ pc = "col" /\ j >= 1 => jc'[j] - jc[j - 1] = k
  /\ pc = "col" /\ j < nc /\ BPos(j) = {} =>
       UNCHANGED <<X_sum, irData, QData, beta, rp, Aqk_p, sp, ri, Aqk_i, si,
                   map_to_Qi, flag>>

C8_Index == [](C8_Pointers) /\ [][C8_Column]_vars

\* an empty column after one with two pivots or more, in a moved buffer
C8_Witness ==
  /\ pc = "done" /\ irBase # 0
  /\ \E c \in 1..(nc - 1) : BPos(c) = {} /\ jc[c] - jc[c - 1] >= 2

\* the entry of A in row i and column c, read off the operator itself
ADense(i, c) == Rat(AEntry(inp.ak, nf, i, c), 1)

RECURSIVE RowTimesX(_, _)
\* the sum over t..k of A[i, xi[t]] * x[t]
RowTimesX(i, t) ==
  IF t > k THEN Zero
  ELSE Add(Mul(ADense(i, XIdx[t]), XVal[t]), RowTimesX(i, t + 1))

\* the rows the mask allows that have an entry in a column of A where x # 0
SpMvRows ==
  {i \in 0..(nf - 1) :
     /\ map_to_Qi[i] < 0
     /\ \E t \in 0..k : ~IsZero(XVal[t]) /\ ~IsZero(ADense(i, XIdx[t]))}

\* C9: sp_mv, entered with flag zero and distinct indices in x in any
\* order, returns the number of rows the mask allows that some column of A
\* with x_j # 0 has, these rows strictly ascending in yi, (A x) of each in
\* y; sv is not written where the mask forbids, and flag is zero again.
C9_SpMv ==
  pc = "resid" =>
    /\ Aqk_nz = Cardinality(SpMvRows)
    /\ {Aqk_i[h] : h \in 0..(Aqk_nz - 1)} = SpMvRows
    /\ \A h \in 0..(Aqk_nz - 2) : Aqk_i[h] < Aqk_i[h + 1]
    /\ \A h \in 0..(Aqk_nz - 1) : Aqk_p[h] = RowTimesX(Aqk_i[h], 0)
    /\ \A i \in 0..(nf - 1) : map_to_Qi[i] >= 0 => sp[i] = JunkVal
    /\ \A i \in 0..(nf - 1) : flag[i] = 0

\* sp_mv has returned two rows or more for an x with descending indices and
\* a zero in it, a row of A x being masked
C9_Witness ==
  /\ pc = "resid" /\ Aqk_nz >= 2 /\ k >= 2
  /\ XIdx[0] > XIdx[1] /\ IsZero(XVal[2])
  /\ \E i \in 0..(nf - 1) :
       /\ map_to_Qi[i] >= 0
       /\ \E t \in 0..k : ~IsZero(XVal[t]) /\ ~IsZero(ADense(i, XIdx[t]))

\* the value at row i of the sparse vector (n, idx, val), 0 off its support
ValueAt(n, idx, val, i) ==
  IF \E h \in 0..(n - 1) : idx[h] = i
  THEN val[CHOOSE h \in 0..(n - 1) : idx[h] = i] ELSE Zero

\* C10: resid_update, given x and y with ascending indices, leaves in r the
\* rows of either support that the mask allows, ascending, with
\* r_i = x_i - alpha y_i, and returns their number; beta_i grows by y_i^2
\* on the common support, becomes y_i^2 on the rest of y's support, masked
\* or not, and stays elsewhere.
C10_Step ==
  pc = "resid" =>
    LET X == {ri[h] : h \in 0..(rnz - 1)}
        Y == {Aqk_i[h] : h \in 0..(Aqk_nz - 1)}
        R == {i \in X \cup Y : map_to_Qi[i] < 0}
        xv(i) == ValueAt(rnz, ri, rp, i)
        yv(i) == ValueAt(Aqk_nz, Aqk_i, Aqk_p, i)
    IN /\ rnz' = Cardinality(R)
       /\ {ri'[h] : h \in 0..(rnz' - 1)} = R
       /\ \A h \in 0..(rnz' - 2) : ri'[h] < ri'[h + 1]
       /\ \A h \in 0..(rnz' - 1) : rp'[h] = Sub(xv(ri'[h]), Mul(w, yv(ri'[h])))
       /\ \A i \in 0..(nf - 1) :
            beta'[i] = IF i \in X \cap Y THEN Add(beta[i], Sq(yv(i)))
                       ELSE IF i \in Y THEN Sq(yv(i))
                       ELSE beta[i]

C10_Resid == [][C10_Step]_vars

\* resid_update has returned; x (kept in si) and y shared a row and had one
\* row each of their own, and a row of y was masked
C10_Witness ==
  /\ pc = "rescan" /\ rnz >= 1
  /\ LET X == {si[h] : h \in 0..(Cardinality(spW) - 1)}
         Y == {Aqk_i[h] : h \in 0..(Aqk_nz - 1)}
     IN /\ X \cap Y # {} /\ X \ Y # {} /\ Y \ X # {}
        /\ \E i \in Y : map_to_Qi[i] >= 0 /\ beta[i] # Rat(i + 10, 1)

====
